---- MODULE Spec2Model ----
(***************************************************************************)
(* Model of PrasadMatrixToGraphToHTML.py:                                  *)
(* plot_3d_multilayer_graph_with_synced_colors(array3d, filename).         *)
(*                                                                         *)
(* Python lists are TLA+ sequences; a Python index k is the sequence index *)
(* k + 1.  Loop variables keep their 0-based Python values.                *)
(* A colour channel (a float k/255 of the tab10 table) is stored as its    *)
(* numerator k over ChannelDen.  z coordinates are the floats L * 2.0,     *)
(* which are whole numbers.                                                *)
(***************************************************************************)
EXTENDS Integers, Sequences, FiniteSets, TLC

\* ------------------------------------------------------------------ bounds
MaxN == 2
MaxLayers == 2
MaxEdges == 2
MaxTotal == 12

\* values uuid.uuid4() may return inside fig.to_html
DivIds == {"uuid_a", "uuid_b"}

\* ------------------------------------------------------- program constants
ChannelDen == 255
PaletteSize == 10
LayerSpacing == 2

tab10 ==
  << <<31, 119, 180>>, <<255, 127, 14>>, <<44, 160, 44>>, <<214, 39, 40>>,
     <<148, 103, 189>>, <<140, 86, 75>>, <<227, 119, 194>>,
     <<127, 127, 127>>, <<188, 189, 34>>, <<23, 190, 207>> >>

\* ------------------------------------------------------------ input space
\* the weight a non-zero entry of layer l (1-based) at row i, column j
\* (1-based) holds: negative below the diagonal, positive elsewhere
WeightAt(l, i, j) == IF i > j THEN 0 - l ELSE i + j

\* shapes <<rows, columns>> of a rectangular layer
Shapes == {<<r, c>> \in (0..MaxN) \X (0..MaxN) : r = 0 => c = 0}

\* shapes of multiplex graphs: 1..MaxLayers layers, all m x m, m >= 1
ValidShapes ==
  UNION {{[l \in 1..k |-> <<m, m>>] : m \in 1..MaxN} : k \in 1..MaxLayers}

\* no layer at all, or a multiplex shape with one layer of another shape
MalformedShapes ==
  ({<<>>} \cup
   UNION {UNION {{[sh EXCEPT ![l] = s] : s \in Shapes} : l \in 1..Len(sh)} :
            sh \in ValidShapes})
  \ ValidShapes

CellsOf(sh) ==
  {<<l, i, j>> \in (1..Len(sh)) \X (1..MaxN) \X (1..MaxN) :
      i <= sh[l][1] /\ j <= sh[l][2]}

\* the subsets of S with at most k elements
RECURSIVE UpTo(_, _)
UpTo(S, k) ==
  IF k = 0 THEN {{}}
  ELSE LET smaller == UpTo(S, k - 1)
       IN  smaller \cup {T \cup {x} : T \in smaller, x \in S}

\* the array of shape sh that is non-zero exactly at the cells of E
BuildArray(sh, E) ==
  [l \in 1..Len(sh) |->
    [i \in 1..sh[l][1] |->
      [j \in 1..sh[l][2] |->
        IF <<l, i, j>> \in E THEN WeightAt(l, i, j) ELSE 0]]]

\* the multiplex graphs with at most MaxEdges non-zero entries, and the
\* malformed arrays with at most one non-zero entry
Inputs ==
  UNION {{BuildArray(sh, E) : E \in UpTo(CellsOf(sh), MaxEdges)} :
           sh \in ValidShapes}
  \cup
  UNION {{BuildArray(sh, E) : E \in UpTo(CellsOf(sh), 1)} :
           sh \in MalformedShapes}

\* a multiplex graph: at least one layer, n >= 1, every layer n x n
IsValid(a) ==
  /\ Len(a) >= 1
  /\ Len(a[1]) >= 1
  /\ \A l \in 1..Len(a) :
       /\ Len(a[l]) = Len(a[1])
       /\ \A i \in 1..Len(a[l]) : Len(a[l][i]) = Len(a[1])

\* --------------------------------------------------------- colour mapping
\* ListedColormap.__call__ on the float num/den in [0, 1]: int(x * N), with
\* x * N = N mapped to N - 1.  The integer quotient equals the float result
\* for every linspace point of a map of at most 35 entries (beyond that the
\* float product can fall just below a whole number)
ListedCallFloat(colors, num, den) ==
  LET N  == Len(colors)
      xa == IF num = den THEN N - 1 ELSE (num * N) \div den
  IN  colors[xa + 1]

\* variant of get_cmap: the palette is cycled, entry k is tab10[k mod 10]
get_cmap_cycled(lutsize) ==
  [k \in 1..lutsize |->
     LET c == tab10[((k - 1) % PaletteSize) + 1]
     IN  <<c[1], c[2], c[3], ChannelDen>>]

\* cm.get_cmap('tab10', lutsize): tab10 resampled at linspace(0, 1, lutsize)
get_cmap(lutsize) ==
  [k \in 1..lutsize |->
     LET c == IF lutsize = 1 THEN ListedCallFloat(tab10, 0, 1)
              ELSE ListedCallFloat(tab10, k - 1, lutsize - 1)
     IN  <<c[1], c[2], c[3], ChannelDen>>]

\* color_map(layer_index): integer lookup, out-of-range indices clipped
CallColorMap(cmap, idx) ==
  LET N == Len(cmap)
  IN  IF idx > N - 1 THEN cmap[N] ELSE IF idx < 0 THEN cmap[1] ELSE cmap[idx + 1]

\* int(c * 255) for a channel c = k / ChannelDen; the float product
\* (k / 255) * 255 is exactly k for every k in 0..255
IntTimes255(k) == (k * 255) \div ChannelDen

\* ----------------------------------------------------------------- layout
\* nx.spring_layout(nx.complete_graph(n), dim=2, seed=42): the results the
\* library may produce; the seed makes the choice a fixed one.  No node
\* gives the empty mapping, one node is put at the centre, two or more
\* nodes are placed apart (a sample placement of pairwise distinct points,
\* no three of them on a line)
spring_layout(nodes) ==
  IF nodes = 0 THEN {<<>>}
  ELSE IF nodes = 1 THEN {<< <<0, 0>> >>}
  ELSE {[k \in 1..nodes |-> <<k - 1, (k - 1) * (k - 1)>>]}

NodeCountOf(a) == IF Len(a) = 0 THEN 0 ELSE Len(a[1])

\* ------------------------------------------------------------- primitives
SeqMin(s) == CHOOSE v \in {s[k] : k \in 1..Len(s)} : \A k \in 1..Len(s) : v <= s[k]
SeqMax(s) == CHOOSE v \in {s[k] : k \in 1..Len(s)} : \A k \in 1..Len(s) : v >= s[k]

ZOffset(li) == li * LayerSpacing

\* variant of node_trace: every marker is put at the position of node 0
node_trace_first_pos(li, pos, nodes) ==
  [type |-> "scatter3d", mode |-> "markers+text",
   name |-> <<"Layer", li + 1, "Nodes">>,
   x |-> [k \in 1..nodes |-> pos[1][1]],
   y |-> [k \in 1..nodes |-> pos[1][2]],
   z |-> [k \in 1..nodes |-> ZOffset(li)],
   color |-> "lightblue", size |-> 10,
   text |-> [k \in 1..nodes |-> <<k - 1, li + 1>>]]

\* lines 27-39: go.Scatter3d(mode='markers+text') of one layer
node_trace(li, pos, nodes) ==
  [type |-> "scatter3d", mode |-> "markers+text",
   name |-> <<"Layer", li + 1, "Nodes">>,
   x |-> [k \in 1..nodes |-> pos[k][1]],
   y |-> [k \in 1..nodes |-> pos[k][2]],
   z |-> [k \in 1..nodes |-> ZOffset(li)],
   color |-> "lightblue", size |-> 10,
   text |-> [k \in 1..nodes |-> <<k - 1, li + 1>>]]

\* lines 47-55: go.Scatter3d(mode='lines') from node i to node j
edge_trace(li, pos, i, j, cmap) ==
  [type |-> "scatter3d", mode |-> "lines",
   name |-> <<"Layer", li + 1, "Edge">>,
   x |-> <<pos[i + 1][1], pos[j + 1][1]>>,
   y |-> <<pos[i + 1][2], pos[j + 1][2]>>,
   z |-> <<ZOffset(li), ZOffset(li)>>,
   color |-> CallColorMap(cmap, li), width |-> 4]

\* variant of IsEdgeEntry: only positive weights count as edges
IsEdgeEntry_positive(val) == val > 0

\* line 46: the test that decides whether entry val is an edge
IsEdgeEntry(val) == val # 0

\* lines 44-56: the i, j scan from scan position p = i * nodes + j on;
\* ok is FALSE when matrix[i][j] raised IndexError, edges is what had been
\* appended by then
RECURSIVE intra_layer_edges(_, _, _, _, _, _, _)
intra_layer_edges(matrix, li, pos, nodes, cmap, p, acc) ==
  IF p = nodes * nodes THEN [edges |-> acc, ok |-> TRUE]
  ELSE LET i == p \div nodes
           j == p % nodes
       IN  IF i >= Len(matrix) \/ j >= Len(matrix[i + 1])
             THEN [edges |-> acc, ok |-> FALSE]
           ELSE IF IsEdgeEntry(matrix[i + 1][j + 1])
             THEN intra_layer_edges(matrix, li, pos, nodes, cmap, p + 1,
                                    Append(acc, edge_trace(li, pos, i, j, cmap)))
           ELSE intra_layer_edges(matrix, li, pos, nodes, cmap, p + 1, acc)

\* lines 59-67: go.Mesh3d over the bounding box of the node positions
plane_trace(li, pos, nodes) ==
  LET xs == [k \in 1..nodes |-> pos[k][1]]
      ys == [k \in 1..nodes |-> pos[k][2]]
  IN  [type |-> "mesh3d", name |-> <<"Layer", li + 1, "Plane">>,
       x |-> <<SeqMin(xs), SeqMax(xs), SeqMax(xs), SeqMin(xs)>>,
       y |-> <<SeqMin(ys), SeqMin(ys), SeqMax(ys), SeqMax(ys)>>,
       z |-> <<ZOffset(li), ZOffset(li), ZOffset(li), ZOffset(li)>>,
       color |-> "lightgray", opacity |-> 15]

\* variant of layer_pass: the plane is appended before the edges
layer_pass_plane_first(matrix, li, pos, nodes, cmap) ==
  LET scan == intra_layer_edges(matrix, li, pos, nodes, cmap, 0, <<>>)
      head == <<node_trace(li, pos, nodes)>>
  IN  IF ~scan.ok THEN [appended |-> head \o scan.edges, exc |-> "IndexError"]
      ELSE IF nodes = 0 THEN [appended |-> head \o scan.edges, exc |-> "ValueError"]
      ELSE [appended |-> Append(head, plane_trace(li, pos, nodes)) \o scan.edges,
            exc |-> "none"]

\* lines 26-68: what one pass of the layer loop appends to traces, in
\* order; exc names the exception that ended the pass, "none" if it ran
\* to the end
layer_pass(matrix, li, pos, nodes, cmap) ==
  LET scan == intra_layer_edges(matrix, li, pos, nodes, cmap, 0, <<>>)
      head == <<node_trace(li, pos, nodes)>> \o scan.edges
  IN  IF ~scan.ok THEN [appended |-> head, exc |-> "IndexError"]
      ELSE IF nodes = 0 THEN [appended |-> head, exc |-> "ValueError"]
      ELSE [appended |-> Append(head, plane_trace(li, pos, nodes)),
            exc |-> "none"]

\* lines 73-81: the dotted vertical link of one node between li and li + 1
inter_edge(node, li, pos) ==
  [type |-> "scatter3d", mode |-> "lines",
   name |-> <<"Inter-layer Node", node>>,
   x |-> <<pos[node + 1][1], pos[node + 1][1]>>,
   y |-> <<pos[node + 1][2], pos[node + 1][2]>>,
   z |-> <<li * LayerSpacing, (li + 1) * LayerSpacing>>,
   color |-> "gray", width |-> 2, dash |-> "dot"]

\* variant of inter_layer_edges: the inner loop runs over range(num_layers)
RECURSIVE inter_layer_edges_every_layer(_, _, _, _, _, _)
inter_layer_edges_every_layer(pos, nodes, layers, node, li, acc) ==
  IF node >= nodes THEN acc
  ELSE IF li >= layers
    THEN inter_layer_edges_every_layer(pos, nodes, layers, node + 1, 0, acc)
  ELSE inter_layer_edges_every_layer(pos, nodes, layers, node, li + 1,
                                     Append(acc, inter_edge(node, li, pos)))

\* lines 71-82: for node in range(n): for layer_index in range(num_layers-1),
\* resumed at loop position (node, li)
RECURSIVE inter_layer_edges(_, _, _, _, _, _)
inter_layer_edges(pos, nodes, layers, node, li, acc) ==
  IF node >= nodes THEN acc
  ELSE IF li >= layers - 1
    THEN inter_layer_edges(pos, nodes, layers, node + 1, 0, acc)
  ELSE inter_layer_edges(pos, nodes, layers, node, li + 1,
                         Append(acc, inter_edge(node, li, pos)))

\* ------------------------------------------------------ figure and tables
\* lines 84-93: go.Figure(data=traces) and fig.update_layout(...)
Figure(data) ==
  [data |-> data,
   layout |-> [title |-> "Multiplex Graph with Transparent Layer Planes",
               showlegend |-> FALSE, showbackground |-> FALSE]]

\* line 96: fig.to_html(full_html=True, include_plotlyjs='cdn'); no div_id
\* is passed, so the fragment's div id is the uuid4 drawn inside the call
to_html(fig, div_id) ==
  <<[div_id |-> div_id, figure |-> fig, include_plotlyjs |-> "cdn"]>>

\* lines 102-103: the CSS rgb string of a layer
layer_color(cmap, li) ==
  LET rgba == CallColorMap(cmap, li)
  IN  <<"rgb", IntTimes255(rgba[1]), IntTimes255(rgba[2]), IntTimes255(rgba[3])>>

\* variant of cell_color: zero entries are shaded too
cell_color_always(val, lcolor) == lcolor

\* lines 110-113
cell_color(val, lcolor) == IF val = 0 THEN <<"white">> ELSE lcolor

\* lines 109-114: the cells of one row, left to right
row_cells(row, lcolor) ==
  [k \in 1..Len(row) |->
     [tag |-> "td", bg |-> cell_color(row[k], lcolor), text |-> row[k]]]

\* lines 107-115: the rows of one matrix, top to bottom, from row r on
RECURSIVE table_rows(_, _, _)
table_rows(matrix, lcolor, r) ==
  IF r > Len(matrix) THEN <<>>
  ELSE <<[tag |-> "tr"]>> \o row_cells(matrix[r], lcolor)
         \o <<[tag |-> "/tr"]>> \o table_rows(matrix, lcolor, r + 1)

\* lines 102-116: the markup one pass of the table loop appends
layer_table(matrix, li, cmap) ==
  LET lcolor == layer_color(cmap, li)
  IN  <<[tag |-> "h3", color |-> lcolor, text |-> <<"Layer", li + 1>>],
        [tag |-> "table"]>>
      \o table_rows(matrix, lcolor, 1)
      \o <<[tag |-> "/table"]>>

\* lines 119-132
Document(graph, table) == <<[graph |-> graph, table |-> table]>>

VARIABLES array3d, seeded_layout, pc, error, n, num_layers, color_map,
          base_pos, traces, layer_index, html_graph, html_table,
          html_content, file_state, file, write_count, run, prev_file,
          cm_pc, cm_total, cm_index, cm_lut, cm_rgba

vars == <<array3d, seeded_layout, pc, error, n, num_layers, color_map,
          base_pos, traces, layer_index, html_graph, html_table,
          html_content, file_state, file, write_count, run, prev_file,
          cm_pc, cm_total, cm_index, cm_lut, cm_rgba>>

inputVars == <<array3d, seeded_layout>>
cmVars == <<cm_pc, cm_total, cm_index, cm_lut, cm_rgba>>
fileVars == <<file_state, file, write_count>>
runVars == <<run, prev_file>>

InitLocals ==
  /\ pc = "start"
  /\ error = "none"
  /\ n = 0
  /\ num_layers = 0
  /\ color_map = <<>>
  /\ base_pos = <<>>
  /\ traces = <<>>
  /\ layer_index = 0
  /\ html_graph = <<>>
  /\ html_table = <<>>
  /\ html_content = <<>>

InitCmIdle ==
  /\ cm_pc = "idle"
  /\ cm_total = 0
  /\ cm_index = 0
  /\ cm_lut = <<>>
  /\ cm_rgba = <<>>

Init ==
  /\ array3d \in Inputs
  /\ seeded_layout \in spring_layout(NodeCountOf(array3d))
  /\ InitLocals
  /\ file_state = "untouched"
  /\ file = <<>>
  /\ write_count = 0
  /\ run = 1
  /\ prev_file = <<>>
  /\ InitCmIdle

\* an exception leaves the function: nothing after the raising line runs
Raise(exc) ==
  /\ pc' = "raised"
  /\ error' = exc

\* lines 13-22
Setup ==
  /\ pc = "start"
  /\ IF Len(array3d) = 0
       THEN /\ Raise("IndexError")
            /\ UNCHANGED <<n, num_layers, color_map, base_pos, traces,
                           layer_index>>
       ELSE /\ n' = Len(array3d[1])
            /\ num_layers' = Len(array3d)
            /\ color_map' = get_cmap(Len(array3d))
            /\ base_pos' = seeded_layout
            /\ traces' = <<>>
            /\ layer_index' = 0
            /\ pc' = "layers"
            /\ UNCHANGED error
  /\ UNCHANGED <<html_graph, html_table, html_content>>
  /\ UNCHANGED <<inputVars, cmVars, fileVars, runVars>>

\* lines 25-68: one pass of the layer loop
BuildLayer ==
  /\ pc = "layers"
  /\ LET pass == layer_pass(array3d[layer_index + 1], layer_index, base_pos,
                            n, color_map)
     IN  /\ traces' = traces \o pass.appended
         /\ IF pass.exc # "none"
              THEN /\ Raise(pass.exc)
                   /\ UNCHANGED layer_index
              ELSE /\ layer_index' = layer_index + 1
                   /\ pc' = IF layer_index + 1 = num_layers THEN "inter"
                            ELSE "layers"
                   /\ UNCHANGED error
  /\ UNCHANGED <<n, num_layers, color_map, base_pos, html_graph, html_table,
                 html_content>>
  /\ UNCHANGED <<inputVars, cmVars, fileVars, runVars>>

\* lines 70-82
InterLayer ==
  /\ pc = "inter"
  /\ traces' = traces \o inter_layer_edges(base_pos, n, num_layers, 0, 0, <<>>)
  /\ pc' = "figure"
  /\ UNCHANGED <<error, n, num_layers, color_map, base_pos, layer_index,
                 html_graph, html_table, html_content>>
  /\ UNCHANGED <<inputVars, cmVars, fileVars, runVars>>

\* lines 84-99
BuildFigure ==
  /\ pc = "figure"
  /\ \E d \in DivIds : html_graph' = to_html(Figure(traces), d)
  /\ html_table' = <<[tag |-> "h2"]>>
  /\ layer_index' = 0
  /\ pc' = "tables"
  /\ UNCHANGED <<error, n, num_layers, color_map, base_pos, traces,
                 html_content>>
  /\ UNCHANGED <<inputVars, cmVars, fileVars, runVars>>

\* variant of TableLayer: the markup built so far is written to the
\* destination after every pass
TableLayer_flush ==
  /\ pc = "tables"
  /\ html_table' = html_table
                     \o layer_table(array3d[layer_index + 1], layer_index,
                                    color_map)
  /\ layer_index' = layer_index + 1
  /\ pc' = IF layer_index + 1 = Len(array3d) THEN "combine" ELSE "tables"
  /\ file' = html_table'
  /\ file_state' = "written"
  /\ write_count' = write_count + 1
  /\ UNCHANGED <<error, n, num_layers, color_map, base_pos, traces,
                 html_graph, html_content>>
  /\ UNCHANGED <<inputVars, cmVars, runVars>>

\* lines 100-116: one pass of the table loop
TableLayer ==
  /\ pc = "tables"
  /\ html_table' = html_table
                     \o layer_table(array3d[layer_index + 1], layer_index,
                                    color_map)
  /\ layer_index' = layer_index + 1
  /\ pc' = IF layer_index + 1 = Len(array3d) THEN "combine" ELSE "tables"
  /\ UNCHANGED <<error, n, num_layers, color_map, base_pos, traces,
                 html_graph, html_content>>
  /\ UNCHANGED <<inputVars, cmVars, fileVars, runVars>>

\* lines 119-132
Combine ==
  /\ pc = "combine"
  /\ html_content' = Document(html_graph, html_table)
  /\ pc' = "open"
  /\ UNCHANGED <<error, n, num_layers, color_map, base_pos, traces,
                 layer_index, html_graph, html_table>>
  /\ UNCHANGED <<inputVars, cmVars, fileVars, runVars>>

\* line 134: open(filename, "w") truncates the file, or raises OSError
\* when the path is not writable
OpenFile ==
  /\ pc = "open"
  /\ \E writable \in BOOLEAN :
       IF writable
         THEN /\ file_state' = "truncated"
              /\ file' = <<>>
              /\ pc' = "write"
              /\ UNCHANGED error
         ELSE /\ Raise("OSError")
              /\ UNCHANGED <<file_state, file>>
  /\ UNCHANGED write_count
  /\ UNCHANGED <<n, num_layers, color_map, base_pos, traces, layer_index,
                 html_graph, html_table, html_content>>
  /\ UNCHANGED <<inputVars, cmVars, runVars>>

\* what is left at the destination when the write stops part-way: a
\* non-empty proper prefix of the document
PartialDocument(content) == <<[prefix_of |-> content]>>

\* ways lines 135-137 can end: everything stored and printed; the document
\* stored and closed but print raising (stdout unwritable: OSError, stdout
\* closed: ValueError); the write or the close raising OSError with a
\* proper prefix of the document, or nothing, left in the truncated file
WriteOutcomes ==
  {"printed", "print_OSError", "print_ValueError", "cut_short", "nothing_stored"}

\* lines 135-137: f.write(html_content), close, print
WriteFile ==
  /\ pc = "write"
  /\ write_count' = write_count + 1
  /\ \E outcome \in WriteOutcomes :
       /\ file' = IF outcome = "cut_short" THEN PartialDocument(html_content)
                  ELSE IF outcome = "nothing_stored" THEN <<>>
                  ELSE html_content
       /\ file_state' = IF outcome = "cut_short" THEN "partial"
                        ELSE IF outcome = "nothing_stored" THEN "truncated"
                        ELSE "written"
       /\ IF outcome = "printed"
            THEN pc' = "done" /\ UNCHANGED error
            ELSE Raise(IF outcome = "print_ValueError" THEN "ValueError"
                       ELSE "OSError")
  /\ UNCHANGED <<n, num_layers, color_map, base_pos, traces,
                 layer_index, html_graph, html_table, html_content>>
  /\ UNCHANGED <<inputVars, cmVars, runVars>>

Next ==
  \/ Setup
  \/ BuildLayer
  \/ InterLayer
  \/ BuildFigure
  \/ TableLayer
  \/ Combine
  \/ OpenFile
  \/ WriteFile

Spec == Init /\ [][Next]_vars

\* ------------------------------------------------- the script run again
\* line 159 executed a second time on the same input: the first run's
\* document stays at the path and is kept in prev_file for comparison
Rerun ==
  /\ pc = "done"
  /\ run = 1
  /\ run' = 2
  /\ prev_file' = file
  /\ pc' = "start"
  /\ error' = "none"
  /\ n' = 0
  /\ num_layers' = 0
  /\ color_map' = <<>>
  /\ base_pos' = <<>>
  /\ traces' = <<>>
  /\ layer_index' = 0
  /\ html_graph' = <<>>
  /\ html_table' = <<>>
  /\ html_content' = <<>>
  /\ file_state' = "untouched"
  /\ write_count' = 0
  /\ UNCHANGED file
  /\ UNCHANGED <<inputVars, cmVars>>

NextRerun == Next \/ Rerun

SpecRerun == Init /\ [][NextRerun]_vars

\* ------------------------------------------- the colour allocator alone
InitColor ==
  /\ cm_total \in 1..MaxTotal
  /\ cm_index \in 0..(cm_total - 1)
  /\ cm_pc = "get_cmap"
  /\ cm_lut = <<>>
  /\ cm_rgba = <<>>
  /\ array3d = <<>>
  /\ seeded_layout = <<>>
  /\ InitLocals
  /\ file_state = "untouched"
  /\ file = <<>>
  /\ write_count = 0
  /\ run = 1
  /\ prev_file = <<>>

pipelineVars == <<pc, error, n, num_layers, color_map, base_pos, traces,
                  layer_index, html_graph, html_table, html_content>>

\* line 17 with num_layers = cm_total
ColorGetCmap ==
  /\ cm_pc = "get_cmap"
  /\ cm_lut' = get_cmap(cm_total)
  /\ cm_pc' = "call"
  /\ UNCHANGED <<cm_total, cm_index, cm_rgba>>
  /\ UNCHANGED <<inputVars, pipelineVars, fileVars, runVars>>

\* lines 53 and 102 with layer_index = cm_index
ColorCall ==
  /\ cm_pc = "call"
  /\ cm_rgba' = CallColorMap(cm_lut, cm_index)
  /\ cm_pc' = "done"
  /\ UNCHANGED <<cm_total, cm_index, cm_lut>>
  /\ UNCHANGED <<inputVars, pipelineVars, fileVars, runVars>>

NextColor == ColorGetCmap \/ ColorCall

SpecColor == InitColor /\ [][NextColor]_vars

\* ================================================================ claims
\* the layer loop has run to its end
LayersDone ==
  \/ pc \in {"inter", "figure", "tables", "combine", "open", "write", "done"}
  \/ pc = "raised" /\ error = "OSError"

\* the inter-layer loop has run to its end
GeometryDone == LayersDone /\ pc # "inter"

\* the ordered pairs (i, j), 0-based, of the non-zero entries of an n x n M
NonZeroPairs(M) ==
  {ij \in (0..(Len(M) - 1)) \X (0..(Len(M) - 1)) : M[ij[1] + 1][ij[2] + 1] # 0}

Nnz(L) == Cardinality(NonZeroPairs(array3d[L + 1]))

LayerIdx == 0..(Len(array3d) - 1)

IsNodesOf(t, L) == t.name = <<"Layer", L + 1, "Nodes">>
IsEdgeOf(t, L) == t.name = <<"Layer", L + 1, "Edge">>
IsPlaneOf(t, L) == t.name = <<"Layer", L + 1, "Plane">>
IsInter(t) == t.name[1] = "Inter-layer Node"

\* the members of a set of pairs in row-major order
RowMajor(S) ==
  CHOOSE f \in [1..Cardinality(S) -> S] :
    \A a, b \in 1..Cardinality(S) :
      a < b => \/ f[a][1] < f[b][1]
               \/ f[a][1] = f[b][1] /\ f[a][2] < f[b][2]

\* the layer-L edge primitives of a primitive list, in list order
EdgesOf(list, L) == SelectSeq(list, LAMBDA t : IsEdgeOf(t, L))

\* C1: for a valid multiplex graph, once the layer loop is over, the number
\* of edge primitives of each layer equals the number of ordered pairs
\* (i, j) with a non-zero entry, self-loops included, none for an all-zero
\* layer.
C1_EdgeCountIsNonZeroCount ==
  (LayersDone /\ IsValid(array3d)) =>
    \A L \in LayerIdx :
      Cardinality({p \in 1..Len(traces) : IsEdgeOf(traces[p], L)}) = Nnz(L)

\* a finished two-layer run: first layer all zero, second layer with a
\* self-loop and a negative off-diagonal weight
C1_Witness ==
  /\ pc = "done"
  /\ IsValid(array3d)
  /\ Len(array3d) = 2
  /\ n = 2
  /\ NonZeroPairs(array3d[1]) = {}
  /\ \E i \in 0..1 : <<i, i>> \in NonZeroPairs(array3d[2])
  /\ \E i, j \in 0..1 : i # j /\ array3d[2][i + 1][j + 1] < 0
  /\ Len(EdgesOf(traces, 1)) = 2

\* C2: for a valid multiplex graph, once the inter-layer loop is over,
\* there are exactly n * (numLayers - 1) inter-layer links: for every node
\* and adjacent layer pair (L, L+1) exactly one, vertical at the node's
\* layout position from z = L * spacing to z = (L + 1) * spacing; none when
\* there is one layer.
C2_InterLayerLinks ==
  (GeometryDone /\ IsValid(array3d)) =>
    LET links == {p \in 1..Len(traces) : IsInter(traces[p])}
        nodes == Len(array3d[1])
        layers == Len(array3d)
    IN  /\ Cardinality(links) = nodes * (layers - 1)
        /\ \A node \in 0..(nodes - 1) : \A L \in 0..(layers - 2) :
             Cardinality({p \in links :
                 /\ traces[p].name[2] = node
                 /\ traces[p].z = <<L * LayerSpacing, (L + 1) * LayerSpacing>>
                 /\ traces[p].x = <<seeded_layout[node + 1][1],
                                    seeded_layout[node + 1][1]>>
                 /\ traces[p].y = <<seeded_layout[node + 1][2],
                                    seeded_layout[node + 1][2]>>}) = 1
        /\ layers = 1 => links = {}

\* a two-layer, two-node graph whose two links have been appended
C2_Witness ==
  /\ pc = "figure"
  /\ IsValid(array3d)
  /\ Len(array3d) = 2
  /\ n = 2
  /\ Cardinality({p \in 1..Len(traces) : IsInter(traces[p])}) = 2

\* the layers whose pass of the layer loop has completed
LayersBuilt ==
  IF pc = "layers" THEN 0..(layer_index - 1)
  ELSE IF LayersDone THEN LayerIdx ELSE {}

\* C8: for a valid multiplex graph every completed layer L has exactly one
\* node-marker primitive, with n entries, entry k at the layout position of
\* node k and z = L * spacing; the layout in use is the one computed before
\* the loop; edge endpoints and inter-layer links lie on node positions of
\* that layout; z grows strictly with the layer index.
C8_NodeMarkers ==
  IsValid(array3d) =>
    /\ pc # "start" => base_pos = seeded_layout
    /\ \A L \in LayersBuilt :
         LET marks == {p \in 1..Len(traces) : IsNodesOf(traces[p], L)}
         IN  /\ Cardinality(marks) = 1
             /\ \A p \in marks :
                  /\ Len(traces[p].x) = n
                  /\ Len(traces[p].y) = n
                  /\ Len(traces[p].z) = n
                  /\ \A k \in 1..n :
                       /\ traces[p].x[k] = seeded_layout[k][1]
                       /\ traces[p].y[k] = seeded_layout[k][2]
                       /\ traces[p].z[k] = L * LayerSpacing
                       /\ traces[p].text[k] = <<k - 1, L + 1>>
                  /\ \A L2 \in LayersBuilt : \A q \in 1..Len(traces) :
                       (L < L2 /\ IsNodesOf(traces[q], L2)) =>
                          traces[p].z[1] < traces[q].z[1]
             /\ \A q \in 1..Len(traces) :
                  IsEdgeOf(traces[q], L) =>
                    /\ \A e \in 1..2 : \E k \in 1..n :
                         /\ traces[q].x[e] = seeded_layout[k][1]
                         /\ traces[q].y[e] = seeded_layout[k][2]
                    /\ traces[q].z = <<L * LayerSpacing, L * LayerSpacing>>
    /\ \A q \in 1..Len(traces) :
         IsInter(traces[q]) =>
           /\ traces[q].x[1] = seeded_layout[traces[q].name[2] + 1][1]
           /\ traces[q].y[1] = seeded_layout[traces[q].name[2] + 1][2]

\* both layers of a two-node graph built, the two nodes at different places
C8_Witness ==
  /\ pc = "inter"
  /\ IsValid(array3d)
  /\ Len(array3d) = 2
  /\ n = 2
  /\ base_pos[1] # base_pos[2]
  /\ \E p, q \in 1..Len(traces) :
       /\ IsNodesOf(traces[p], 0)
       /\ IsNodesOf(traces[q], 1)
       /\ traces[p].x = traces[q].x
       /\ traces[p].z # traces[q].z

\* number of primitives the layers before L contribute
RECURSIVE Before(_)
Before(L) == IF L = 0 THEN 0 ELSE Before(L - 1) + 2 + Nnz(L - 1)

\* the scene handed to the figure
Scene == html_graph[1].figure.data

\* C9: in the composed scene of a valid multiplex graph, layer L's block
\* starts right after the blocks of the layers before it and consists of
\* the node-marker primitive, then the edges in row-major (i, j) order,
\* then one plane (also when the layer has no edge); everything after the
\* last layer block is an inter-layer link.
C9_PrimitiveOrder ==
  (IsValid(array3d) /\ html_graph # <<>>) =>
    LET scene == Scene
        layersEnd == Before(Len(array3d))
    IN  /\ Len(scene) = layersEnd + n * (Len(array3d) - 1)
        /\ \A L \in LayerIdx :
             LET start == Before(L) + 1
                 nz == NonZeroPairs(array3d[L + 1])
                 count == Cardinality(nz)
                 pairs == RowMajor(nz)
             IN  /\ IsNodesOf(scene[start], L)
                 /\ \A k \in 1..count :
                      /\ IsEdgeOf(scene[start + k], L)
                      /\ scene[start + k].x =
                           <<seeded_layout[pairs[k][1] + 1][1],
                             seeded_layout[pairs[k][2] + 1][1]>>
                      /\ scene[start + k].y =
                           <<seeded_layout[pairs[k][1] + 1][2],
                             seeded_layout[pairs[k][2] + 1][2]>>
                 /\ IsPlaneOf(scene[start + count + 1], L)
        /\ \A p \in 1..Len(scene) : p > layersEnd <=> IsInter(scene[p])

\* a composed scene of two layers on two distinct node positions: the first
\* layer with edges (0,1) and (1,0), the second with none
C9_Witness ==
  /\ pc = "tables"
  /\ IsValid(array3d)
  /\ Len(array3d) = 2
  /\ n = 2
  /\ base_pos[1] # base_pos[2]
  /\ NonZeroPairs(array3d[1]) = {<<0, 1>>, <<1, 0>>}
  /\ NonZeroPairs(array3d[2]) = {}
  /\ Len(Scene) = 8

\* the table loop has run to its end
TablesDone ==
  \/ pc \in {"combine", "open", "write", "done"}
  \/ pc = "raised" /\ error = "OSError"

\* index of layer L's heading in the table markup
HeadingAt(L) ==
  CHOOSE q \in 1..Len(html_table) :
    html_table[q].tag = "h3" /\ html_table[q].text = <<"Layer", L + 1>>

\* the markup between layer L's heading and the next heading
Section(L) ==
  SubSeq(html_table, HeadingAt(L) + 1,
         IF L + 1 < Len(array3d) THEN HeadingAt(L + 1) - 1
         ELSE Len(html_table))

\* C3: once the tables are built, for every layer L the RGB value each of
\* L's edge primitives carries in the scene equals, channel by channel, the
\* 8-bit RGB value of L's heading, and every non-zero cell of L's table has
\* the heading's colour as background.  An edge channel is a float stored
\* as its numerator over ChannelDen, so it equals the whole number v of the
\* heading when that numerator is v * ChannelDen.
C3_SameRgbAtBothSites ==
  TablesDone =>
    \A L \in LayerIdx :
      LET heading == html_table[HeadingAt(L)].color
          sect == Section(L)
      IN  /\ \A p \in 1..Len(Scene) :
               IsEdgeOf(Scene[p], L) =>
                 \A c \in 1..3 : Scene[p].color[c] = heading[c + 1] * ChannelDen
          /\ \A q \in 1..Len(sect) :
               (sect[q].tag = "td" /\ sect[q].text # 0) => sect[q].bg = heading

Rows(M) == Len(M)
Cols(M) == IF Len(M) = 0 THEN 0 ELSE Len(M[1])

\* index in layer L's section of the cell of entry (i, j), 0-based
CellAt(M, i, j) == 2 + i * (Cols(M) + 2) + 1 + j

\* the entries (i, j) of matrix M whose cell in the section sect is not
\* neutral
ColoredCells(M, sect) ==
  {ij \in (0..(Rows(M) - 1)) \X (0..(Cols(M) - 1)) :
     sect[CellAt(M, ij[1], ij[2])].bg # <<"white">>}

\* C4: once the tables are built, layer L's table is one row per matrix row
\* and one cell per entry, in index order; the cell of entry (i, j) shows
\* the entry's value, on the neutral background when it is zero and on the
\* layer's heading colour otherwise.  For a valid multiplex graph the
\* coloured cells of layer L, in row-major order, are the endpoints pairs of
\* layer L's edge primitives, in list order.
C4_TableCells ==
  TablesDone =>
    \A L \in LayerIdx :
      LET M == array3d[L + 1]
          sect == Section(L)
          heading == html_table[HeadingAt(L)].color
      IN  /\ Len(sect) = 2 + Rows(M) * (Cols(M) + 2)
          /\ sect[1].tag = "table"
          /\ sect[Len(sect)].tag = "/table"
          /\ heading # <<"white">>
          /\ \A i \in 0..(Rows(M) - 1) :
               /\ sect[2 + i * (Cols(M) + 2)].tag = "tr"
               /\ sect[2 + i * (Cols(M) + 2) + Cols(M) + 1].tag = "/tr"
               /\ \A j \in 0..(Cols(M) - 1) :
                    LET cell == sect[CellAt(M, i, j)]
                    IN  /\ cell.tag = "td"
                        /\ cell.text = M[i + 1][j + 1]
                        /\ cell.bg = IF M[i + 1][j + 1] = 0 THEN <<"white">>
                                     ELSE heading
          /\ IsValid(array3d) =>
               LET colored == ColoredCells(M, sect)
                   cells == RowMajor(colored)
                   edges == EdgesOf(Scene, L)
               IN  /\ Len(edges) = Cardinality(colored)
                   /\ \A k \in 1..Len(edges) :
                        /\ edges[k].x = <<seeded_layout[cells[k][1] + 1][1],
                                          seeded_layout[cells[k][2] + 1][1]>>
                        /\ edges[k].y = <<seeded_layout[cells[k][1] + 1][2],
                                          seeded_layout[cells[k][2] + 1][2]>>

\* tables built for a valid two-node graph whose second layer has one zero
\* and one non-zero entry in its first row and a coloured cell at (1, 0)
C4_Witness ==
  /\ TablesDone
  /\ pc = "open"
  /\ IsValid(array3d)
  /\ Len(array3d) = 2
  /\ n = 2
  /\ base_pos[1] # base_pos[2]
  /\ ColoredCells(array3d[2], Section(1)) = {<<0, 1>>, <<1, 0>>}
  /\ ColoredCells(array3d[1], Section(0)) = {}

\* C5: no run on an invalid input (no node, layers whose dimensions differ,
\* a non-square layer) ends with a document written.
C5_NoDocumentOnInvalid ==
  ~IsValid(array3d) => file_state # "written"

\* number of headings in the table markup
HeadingCount ==
  Cardinality({q \in 1..Len(html_table) : html_table[q].tag = "h3"})

\* the document in memory is the complete one: the scene with every
\* primitive and one table per layer
DocumentComplete ==
  /\ html_graph # <<>>
  /\ Scene = traces
  /\ HeadingCount = Len(array3d)
  /\ html_content = <<[graph |-> html_graph, table |-> html_table]>>

\* C10: the destination is written at most once; it is touched only after
\* the complete document has been combined, and a stored document is that
\* document; a failure before the document is combined leaves the
\* destination untouched; when opening or writing the destination fails
\* the run ends with OSError, the complete document in memory and the
\* document not at the destination; a run that has raised takes no further
\* step.
C10_SingleLateWrite ==
  /\ write_count <= 1
  /\ file_state # "untouched" =>
        (DocumentComplete /\ pc \in {"write", "done", "raised"})
  /\ file_state = "written" => (file = html_content /\ write_count = 1)
  /\ (html_content # <<>> /\ file_state # "written") => file # html_content
  /\ file_state = "untouched" => (write_count = 0 /\ file = <<>>)
  /\ (pc = "raised" /\ html_content = <<>>) => file_state = "untouched"
  /\ (pc = "raised" /\ html_content # <<>> /\ file_state # "written") =>
        (error = "OSError" /\ DocumentComplete)
  /\ pc = "raised" => ~ENABLED Next

\* a run on a two-layer graph with an edge whose single write failed
\* part-way after the document had been combined
C10_Witness ==
  /\ pc = "raised"
  /\ error = "OSError"
  /\ Len(array3d) = 2
  /\ Len(html_content) = 1
  /\ Len(EdgesOf(traces, 1)) >= 1
  /\ write_count = 1
  /\ file_state = "partial"
  /\ file = PartialDocument(html_content)

\* C7: when the script has run twice on the same input, the document the
\* second run wrote equals the document the first run wrote.
C7_ByteIdentical ==
  (run = 2 /\ file_state = "written") => file = prev_file

\* the tab10 entry (0-based index e) as the colour map returns it
PaletteEntry(e) == <<tab10[e + 1][1], tab10[e + 1][2], tab10[e + 1][3], ChannelDen>>

\* distinct layer indices of the map just built receive distinct colours
DistinctInMap ==
  \A k \in 0..(cm_total - 1) :
    k # cm_index => CallColorMap(cm_lut, k) # cm_rgba

\* C6 as stated: with more layers than palette entries layer L receives
\* entry L mod paletteSize; with at most paletteSize layers distinct layers
\* receive distinct entries.
C6_Cycling ==
  cm_pc = "done" =>
    /\ cm_total > PaletteSize => cm_rgba = PaletteEntry(cm_index % PaletteSize)
    /\ cm_total <= PaletteSize => DistinctInMap

\* index (0-based) of the tab10 entry a colour of the map is
EntryOf(rgba) == CHOOSE e \in 0..(PaletteSize - 1) : PaletteEntry(e) = rgba

\* C6 amended: the colour of layer L is always an entry of the 10-entry
\* palette; the palette is resampled over the layers, not cycled: the first
\* layer receives the first entry, the last of two or more layers the last
\* entry, and the entry index never decreases as L grows, so with more
\* layers than palette entries later layers do not wrap around to the
\* first entries; with at most paletteSize layers distinct layers receive
\* distinct entries.
C6_Resampled ==
  cm_pc = "done" =>
    /\ \E e \in 0..(PaletteSize - 1) : cm_rgba = PaletteEntry(e)
    /\ cm_index = 0 => cm_rgba = PaletteEntry(0)
    /\ (cm_total >= 2 /\ cm_index = cm_total - 1) =>
          cm_rgba = PaletteEntry(PaletteSize - 1)
    /\ \A k \in 0..(cm_index - 1) :
          EntryOf(CallColorMap(cm_lut, k)) <= EntryOf(cm_rgba)
    /\ cm_total <= PaletteSize => DistinctInMap

\* the colour of the last of eleven layers has been looked up
C6_Witness ==
  /\ cm_pc = "done"
  /\ cm_total = PaletteSize + 1
  /\ cm_index = PaletteSize
  /\ cm_rgba = PaletteEntry(PaletteSize - 1)
====
